---------------------------- MODULE Spec2Model ----------------------------
(***************************************************************************)
(* Model of the Atticus news curator (src/main.py): the text normaliser,   *)
(* the keyword scorer, the sample-copy composer, the per-feed ingestion    *)
(* with its dedup cache, the ranking, the sink append loop and the cache   *)
(* cleanup.  Texts are TLA+ strings; Len, SubSeq and \o act on them        *)
(* character by character, as Python's len, slicing and + do.              *)
(***************************************************************************)
EXTENDS Integers, Sequences, FiniteSets, TLC

VARIABLES
    \* ---- AttticusNewsCurator, one running worker -------------------------
    pc,                  \* where the worker is: "idle", "fetching", "adding"
    feed_idx,            \* fetch_all_articles: index of the next feed of self.feeds
    all_articles,        \* fetch_all_articles: the list gathered so far
    articles,            \* the list fetch_all_articles returned to run_curation
    row_idx,             \* add_articles_to_sheet: index of the next article
    added_count,         \* add_articles_to_sheet: added_count
    processed_articles,  \* self.processed_articles (a Python set)
    sheet,               \* the rows the sink holds, in append order
    cycles,              \* number of run_curation calls started
    \* ---- history, read by the properties only ----------------------------
    reg_order,           \* ids of processed_articles in order of registration
    feed_log,            \* fetch_all_articles: per feed fetched, its outcome and yield
    attempts,            \* this cycle: per append_row call, the article and ok
    emitted,             \* ids emitted by ingestion, all cycles, in order
    shrunk,              \* a cleanup pass has discarded ids
    failures,            \* number of append_row calls that failed, all cycles
    last,                \* the operation that ran last
    \* ---- the pure functions, applied to drawn inputs ---------------------
    title, summary, max_length,   \* the arguments
    result                        \* <<>>, or <<the value returned>>

runVars == <<pc, feed_idx, all_articles, articles, row_idx, added_count,
             sheet, cycles, feed_log, attempts, emitted, shrunk, failures>>
cacheVars == <<processed_articles, reg_order>>
pipeVars == <<runVars, cacheVars>>
pureVars == <<title, summary, max_length, result>>
vars == <<pipeVars, last, pureVars>>

-----------------------------------------------------------------------------
(* Bounds of the model *)

\* clean_text inputs: at most this many fragments of TextFragments
MaxFrags == 3
\* calculate_article_score inputs: at most this many fragments in the title
MaxTitleFrags == 2
\* calculate_article_score inputs: at most this many fragments in the summary
MaxSummaryFrags == 2
\* create_sample_copy inputs: max_length ranges over 0..MaxSmallLength (and 140)
MaxSmallLength == 6
\* number of feeds of self.feeds the model keeps (the source lists 8)
NumFeeds == 2
\* number of run_curation calls a behaviour makes
MaxCycles == 2
\* number of append_row calls that may fail in one behaviour
MaxAppendFailures == 1
\* hash layouts of the set: the newest 0..MaxDisplaced ids iterate first
MaxDisplaced == 2

-----------------------------------------------------------------------------
(* Python string primitives *)

Min(a, b) == IF a < b THEN a ELSE b
Max(a, b) == IF a > b THEN a ELSE b

\* s[i] for a 1-based i
CharAt(s, i) == SubSeq(s, i, i)

\* s[:k]: a negative k counts from the end, and the slice clamps at both ends
PySlicePrefix(s, k) ==
    IF k >= 0 THEN SubSeq(s, 1, Min(k, Len(s)))
    ELSE SubSeq(s, 1, Max(Len(s) + k, 0))

\* old in s, for a non-empty old
IsSubstring(old, s) ==
    \E i \in 1..(Len(s) - Len(old) + 1) : SubSeq(s, i, i + Len(old) - 1) = old

MinOf(S) == CHOOSE x \in S : \A y \in S : x <= y
MaxOf(S) == CHOOSE x \in S : \A y \in S : x >= y

\* s[i-1:] for a 1-based i
Tail_(s, i) == SubSeq(s, i, Len(s))

\* s.replace(old, new): left to right, non-overlapping; each step of the
\* recursion copies the text up to the next occurrence and replaces it
RECURSIVE ReplaceFrom(_, _, _, _)
ReplaceFrom(s, old, new, i) ==
    LET hits == {j \in i..(Len(s) - Len(old) + 1) : SubSeq(s, j, j + Len(old) - 1) = old}
    IN  IF hits = {} THEN Tail_(s, i)
        ELSE LET j == MinOf(hits)
             IN  SubSeq(s, i, j - 1) \o new \o ReplaceFrom(s, old, new, j + Len(old))
Replace(s, old, new) == ReplaceFrom(s, old, new, 1)

UpperLetters == "ABCDEFGHIJKLMNOPQRSTUVWXYZ"
LowerLetters == "abcdefghijklmnopqrstuvwxyz"
LowerChar(c) ==
    IF \E i \in 1..Len(UpperLetters) : CharAt(UpperLetters, i) = c
    THEN CharAt(LowerLetters,
                CHOOSE i \in 1..Len(UpperLetters) : CharAt(UpperLetters, i) = c)
    ELSE c
\* s.lower(): character by character (the recursion halves the text)
RECURSIVE Lower(_)
Lower(s) ==
    IF Len(s) = 0 THEN ""
    ELSE IF Len(s) = 1 THEN LowerChar(s)
    ELSE LET h == Len(s) \div 2
         IN  Lower(SubSeq(s, 1, h)) \o Lower(SubSeq(s, h + 1, Len(s)))

\* the characters str.strip() removes (those of the model's alphabet)
Whitespace == {" ", "\t", "\n", "\r", "\f"}
IsSpace(c) == c \in Whitespace
\* s.strip(): from the first to the last character that is not whitespace
Strip(s) ==
    LET solid == {i \in 1..Len(s) : ~IsSpace(CharAt(s, i))}
    IN  IF solid = {} THEN "" ELSE SubSeq(s, MinOf(solid), MaxOf(solid))

-----------------------------------------------------------------------------
(* clean_text *)

\* index of the first ">" after position i, 0 if there is none
FirstGtAfter(s, i) ==
    LET gts == {j \in (i + 1)..Len(s) : CharAt(s, j) = ">"}
    IN  IF gts = {} THEN 0 ELSE MinOf(gts)

\* re.sub(r'<[^>]+>', '', text): a "<", one or more characters other than ">",
\* and the ">" that follows them; leftmost matches, scanned left to right
RECURSIVE SubTagsFrom(_, _)
SubTagsFrom(s, i) ==
    LET starts == {j \in i..Len(s) : CharAt(s, j) = "<" /\ FirstGtAfter(s, j) > j + 1}
    IN  IF starts = {} THEN Tail_(s, i)
        ELSE LET j == MinOf(starts)
             IN  SubSeq(s, i, j - 1) \o SubTagsFrom(s, FirstGtAfter(s, j) + 1)
SubTags(s) == SubTagsFrom(s, 1)

\* index of the last "s" of the run of "s" that starts at position i
EndOfSRun(s, i) ==
    LET others == {j \in i..Len(s) : CharAt(s, j) # "s"}
    IN  IF others = {} THEN Len(s) ELSE MinOf(others) - 1

\* re.sub(r'\\s+', ' ', text): the pattern, as written in the source, is a
\* backslash followed by one or more letters "s"
RECURSIVE SubBackslashSFrom(_, _)
SubBackslashSFrom(s, i) ==
    LET starts == {j \in i..(Len(s) - 1) : SubSeq(s, j, j + 1) = "\\s"}
    IN  IF starts = {} THEN Tail_(s, i)
        ELSE LET j == MinOf(starts)
             IN  SubSeq(s, i, j - 1) \o " " \o SubBackslashSFrom(s, EndOfSRun(s, j + 1) + 1)
SubBackslashS(s) == SubBackslashSFrom(s, 1)

\* .replace('"', "'").replace('\\n', ' ').replace('\\r', ' '): the last two
\* search for the two characters backslash n and backslash r
ReplaceSpecials(s) == Replace(Replace(Replace(s, "\"", "'"), "\\n", " "), "\\r", " ")

clean_text(text) ==
    IF text = "" THEN ""
    ELSE Strip(ReplaceSpecials(SubBackslashS(SubTags(text))))

-----------------------------------------------------------------------------
(* calculate_article_score *)

\* self.keywords, in the order the dict literal lists them (its iteration order)
keywords == <<
    <<"bitcoin options", 15>>, <<"crypto options", 12>>, <<"btc options", 15>>,
    <<"perpetual futures", 10>>, <<"defi options", 10>>,
    <<"downside protection", 8>>, <<"institutional crypto", 8>>,
    <<"crypto derivatives", 9>>, <<"btc etf", 7>>, <<"volatility trading", 8>>,
    <<"options trading", 12>>, <<"web3", 5>>, <<"hedging strategies", 7>>,
    <<"risk management", 6>>, <<"crypto volatility", 6>>,
    <<"institutional adoption", 7>>, <<"derivatives market", 8>>,
    <<"digital assets", 4>>, <<"crypto hedge", 6>>,
    <<"portfolio protection", 7>>, <<"trading infrastructure", 6>>,
    <<"market making", 7>>, <<"liquidity provision", 6>>,
    <<"automated trading", 5>>, <<"algorithmic trading", 5>> >>
Keyword(k) == keywords[k][1]
Weight(k) == keywords[k][2]

\* for keyword, weight in self.keywords.items(): if keyword in content: ...
RECURSIVE MatchLoop(_, _, _)
MatchLoop(content, k, acc) ==
    IF k > Len(keywords) THEN acc
    ELSE IF IsSubstring(Keyword(k), content)
         THEN MatchLoop(content, k + 1,
                        [score |-> acc.score + Weight(k),
                         matched_keywords |-> Append(acc.matched_keywords, Keyword(k))])
         ELSE MatchLoop(content, k + 1, acc)

\* if len(matched_keywords) > 1: score += len(matched_keywords) * 2
MultiMatchBonusOffByOne(matched) ==
    IF Len(matched) >= 1 THEN Len(matched) * 2 ELSE 0
MultiMatchBonus(matched) ==
    IF Len(matched) > 1 THEN Len(matched) * 2 ELSE 0

\* for keyword in self.keywords: if keyword in title_lower: score += 3
RECURSIVE TitleLoop(_, _, _)
TitleLoop(title_lower, k, score) ==
    IF k > Len(keywords) THEN score
    ELSE TitleLoop(title_lower, k + 1,
                   IF IsSubstring(Keyword(k), title_lower) THEN score + 3 ELSE score)

calculate_article_score(t, s) ==
    LET content == Lower(t \o " " \o s)
        m == MatchLoop(content, 1, [score |-> 0, matched_keywords |-> <<>>])
        with_bonus == m.score + MultiMatchBonus(m.matched_keywords)
    IN  [score |-> TitleLoop(Lower(t), 1, with_bonus),
         matched_keywords |-> m.matched_keywords]

-----------------------------------------------------------------------------
(* create_sample_copy *)

\* max_length: int = 140
SAMPLE_COPY_MAX_LENGTH == 140
\* if len(clean_summary) < 50
SHORT_SUMMARY_LENGTH == 50

create_sample_copy(t, s, max_len) ==
    LET clean_summary == clean_text(s)
        combined == IF Len(clean_summary) < SHORT_SUMMARY_LENGTH
                    THEN t \o ". " \o clean_summary
                    ELSE clean_summary
    IN  IF Len(combined) > max_len
        THEN PySlicePrefix(combined, max_len - 3) \o "..."
        ELSE combined

-----------------------------------------------------------------------------
(* The pure functions applied to drawn inputs *)

\* every concatenation of at most n fragments of F
RECURSIVE Concats(_, _)
Concats(F, n) ==
    IF n = 0 THEN {""}
    ELSE LET P == Concats(F, n - 1) IN P \cup {p \o f : p \in P, f \in F}

RECURSIVE Repeat(_, _)
Repeat(s, n) == IF n = 0 THEN "" ELSE s \o Repeat(s, n - 1)

\* the worker constructed and idle: __init__ leaves the cache empty
WorkerIdle ==
    /\ pc = "idle" /\ feed_idx = 1 /\ all_articles = <<>> /\ articles = <<>>
    /\ row_idx = 1 /\ added_count = 0 /\ sheet = <<>> /\ cycles = 0
    /\ feed_log = <<>> /\ attempts = <<>> /\ emitted = <<>>
    /\ shrunk = FALSE /\ failures = 0

NoCall == last = "init" /\ result = <<>>

\* ---- clean_text ----------------------------------------------------------
TextFragments ==
    {"a", "s", " ", "\n", "\r", "<b>", "<", ">", "\"", "\\s", "\\n"}

InitClean ==
    /\ WorkerIdle /\ processed_articles = {} /\ reg_order = <<>> /\ NoCall
    /\ title = "" /\ max_length = SAMPLE_COPY_MAX_LENGTH
    /\ summary \in Concats(TextFragments, MaxFrags)

CallCleanText ==
    /\ last = "init"
    /\ result' = <<clean_text(summary)>>
    /\ last' = "clean_text"
    /\ UNCHANGED <<pipeVars, title, summary, max_length>>

SpecClean == InitClean /\ [][CallCleanText]_vars

\* ---- calculate_article_score ---------------------------------------------
TitleFragments == {"Bitcoin", " Options", "btc etf", "Web3", " "}
SummaryFragments ==
    {"options", " trading", "downside protection", "web3", "Digital Assets"}

InitScore ==
    /\ WorkerIdle /\ processed_articles = {} /\ reg_order = <<>> /\ NoCall
    /\ max_length = SAMPLE_COPY_MAX_LENGTH
    /\ title \in Concats(TitleFragments, MaxTitleFrags)
    /\ summary \in Concats(SummaryFragments, MaxSummaryFrags)

CallCalculateArticleScore ==
    /\ last = "init"
    /\ result' = <<calculate_article_score(title, summary)>>
    /\ last' = "calculate_article_score"
    /\ UNCHANGED <<pipeVars, title, summary, max_length>>

SpecScore == InitScore /\ [][CallCalculateArticleScore]_vars

\* ---- create_sample_copy --------------------------------------------------
CopyTitles == {"", "BTC", "Bitcoin Options Trading Surges"}
CopySummaries ==
    {"", "ok", "<p>Short  summary</p>",
     Repeat("0123456", 7),            \* 49 characters
     Repeat("01234", 10),             \* 50 characters
     Repeat("crypto options ", 10)}   \* 150 characters, 149 once stripped

InitCopy ==
    /\ WorkerIdle /\ processed_articles = {} /\ reg_order = <<>> /\ NoCall
    /\ title \in CopyTitles
    /\ summary \in CopySummaries
    /\ max_length \in (0..MaxSmallLength) \cup {SAMPLE_COPY_MAX_LENGTH}

CallCreateSampleCopy ==
    /\ last = "init"
    /\ result' = <<create_sample_copy(title, summary, max_length)>>
    /\ last' = "create_sample_copy"
    /\ UNCHANGED <<pipeVars, title, summary, max_length>>

SpecCopy == InitCopy /\ [][CallCreateSampleCopy]_vars

-----------------------------------------------------------------------------
(* The feeds: what feedparser.parse may return *)

\* the texts entries carry: the three articles of src/test.py, and others
\* that score exactly the threshold, just below it, and zero
EntryTexts == <<
    [title |-> "Bitcoin Options Trading Surges as Institutional Demand Grows",
     summary |-> "Major exchanges report increased bitcoin options volume from hedge funds seeking downside protection."],
    [title |-> "New DeFi Protocol Launches Perpetual Futures",
     summary |-> "Platform offers crypto derivatives with automated hedging strategies for retail traders."],
    [title |-> "General Crypto News Article",
     summary |-> "Some general cryptocurrency news that is not very relevant to options trading."],
    [title |-> "Funds seek cover",
     summary |-> "<p>Demand for <b>downside protection</b> rises</p>"],
    [title |-> "ETF  news",
     summary |-> "A new BTC ETF"],
    [title |-> "Market wrap", summary |-> ""] >>

\* an entry: guid is the feed-provided id (NoGuid when the entry has none),
\* text indexes EntryTexts, malformed entries lack the title attribute
NoGuid == 0
Entry(g, l, t) == [guid |-> g, link |-> l, text |-> t, malformed |-> FALSE]
Malformed(g, l, t) == [guid |-> g, link |-> l, text |-> t, malformed |-> TRUE]

\* the entry lists a feed may serve
FeedSnapshots == <<
    \* twelve entries, the last two beyond the first ten; of the first ten,
    \* seven qualify, id 2 is served twice, ids 6 and 15 score too low
    << Entry(1, 1, 3), Entry(2, 2, 1), Entry(3, 3, 3), Entry(4, 4, 2),
       Entry(5, 5, 4), Entry(6, 6, 5), Entry(7, 7, 3), Entry(2, 2, 1),
       Entry(15, 15, 6), Entry(16, 16, 3), Entry(13, 13, 1), Entry(14, 14, 2) >>,
    \* five qualifying entries (id 6 now with a qualifying text, id 12 taken
    \* from the link), a malformed entry in the middle, id 17 scores too low
    << Entry(8, 8, 3), Malformed(13, 13, 1), Entry(10, 10, 4), Entry(11, 11, 3),
       Entry(NoGuid, 12, 2), Entry(6, 6, 1), Entry(17, 17, 5) >> >>

\* what one call of feedparser.parse yields: an exception, no entries, or one
\* of the snapshots (by index)
FeedOutcomes ==
    {[status |-> "error", snapshot |-> 0], [status |-> "empty", snapshot |-> 0]}
    \cup {[status |-> "ok", snapshot |-> i] : i \in 1..Len(FeedSnapshots)}

-----------------------------------------------------------------------------
(* fetch_articles_from_feed *)

\* if score >= 8
MIN_RELEVANCE_SCORE == 8
\* feed.entries[:10]
MAX_ENTRIES_PER_FEED == 10

\* article_id = entry.get('id', entry.link)
ArticleId(entry) == IF entry.guid # NoGuid THEN entry.guid ELSE entry.link

\* title, summary, score, matched_keywords and sample_copy of lines 204-212
Scored(entry) ==
    LET t == clean_text(EntryTexts[entry.text].title)
        s == clean_text(EntryTexts[entry.text].summary)
        r == calculate_article_score(t, s)
    IN  [title |-> t, score |-> r.score, matched_keywords |-> r.matched_keywords,
         sample_copy |-> create_sample_copy(t, s, SAMPLE_COPY_MAX_LENGTH)]
\* the same, computed once per text
ScoredText == [i \in 1..Len(EntryTexts) |-> Scored(Entry(NoGuid, 0, i))]

\* if article_id in self.processed_articles: continue
AlreadyProcessedNever(id, cache) == FALSE
AlreadyProcessedOnlyIfPublished(id, cache) ==
    id \in cache /\ \E i \in 1..Len(sheet) : sheet[i].article.id = id
AlreadyProcessed(id, cache) == id \in cache

\* if score >= 8
QualifiesFrom7(score) == score >= MIN_RELEVANCE_SCORE - 1
Qualifies(score) == score >= MIN_RELEVANCE_SCORE

\* the dict of lines 214-223 ('published' and 'source', which nothing reads,
\* left out; text is history: the entry text the article was made from)
Article(entry) ==
    LET sc == ScoredText[entry.text]
    IN  [id |-> ArticleId(entry), title |-> sc.title, link |-> entry.link,
         sample_copy |-> sc.sample_copy, score |-> sc.score,
         matched_keywords |-> sc.matched_keywords, text |-> entry.text]

\* self.processed_articles.add(article_id) stands inside `if score >= 8`:
\* the cache after an entry was scored
RegisteredWhateverTheScore(cache, id, accepted) == cache \cup {id}
RegisteredNever(cache, id, accepted) == cache
Registered(cache, id, accepted) == IF accepted THEN cache \cup {id} ELSE cache

\* for entry in feed.entries[:10]: an entry that raised is followed by the
\* next one (except ...: continue)
NextEntryAbortOnFailure(i, failed) ==
    IF failed THEN MAX_ENTRIES_PER_FEED + 1 ELSE i + 1
NextEntry(i, failed) == i + 1

\* the loop over feed.entries[:10]; acc = [articles, processed, order]
RECURSIVE EntryLoop(_, _, _)
EntryLoop(entries, i, acc) ==
    IF i > Min(Len(entries), MAX_ENTRIES_PER_FEED) THEN acc
    ELSE LET entry == entries[i]
             id == ArticleId(entry)
         IN  IF AlreadyProcessed(id, acc.processed)
             THEN EntryLoop(entries, NextEntry(i, FALSE), acc)
             ELSE IF entry.malformed
             THEN EntryLoop(entries, NextEntry(i, TRUE), acc)   \* except ...: continue
             ELSE IF Qualifies(ScoredText[entry.text].score)
             THEN EntryLoop(entries, NextEntry(i, FALSE),
                     [articles |-> Append(acc.articles, Article(entry)),
                      processed |-> Registered(acc.processed, id, TRUE),
                      order |-> Append(acc.order, id)])
             ELSE EntryLoop(entries, NextEntry(i, FALSE),
                     [acc EXCEPT !.processed = Registered(acc.processed, id, FALSE)])

\* fetch_articles_from_feed(feed_url), with what feedparser.parse yielded
fetch_articles_from_feed(outcome, cache, order) ==
    LET start == [articles |-> <<>>, processed |-> cache, order |-> order]
    IN  IF outcome.status = "error" THEN start       \* except ...: return articles
        ELSE IF outcome.status = "empty" THEN start  \* if not feed.entries: return
        ELSE EntryLoop(FeedSnapshots[outcome.snapshot], 1, start)

-----------------------------------------------------------------------------
(* fetch_all_articles *)

\* return all_articles[:5]
MAX_ARTICLES_PER_RUN == 5

\* for feed_url in self.feeds: a feed that failed is followed by the next
NextFeedAbortOnError(idx, outcome) ==
    IF outcome.status = "error" THEN NumFeeds + 1 ELSE idx + 1
NextFeed(idx, outcome) == idx + 1

\* one step of a stable descending sort: a goes behind every element whose
\* score is at least its own
InsertByScoreBeforeTies(sorted, a) ==
    LET ahead == {i \in 1..Len(sorted) : sorted[i].score > a.score}
        n == Cardinality(ahead)
    IN  SubSeq(sorted, 1, n) \o <<a>> \o SubSeq(sorted, n + 1, Len(sorted))
InsertByScore(sorted, a) ==
    LET ahead == {i \in 1..Len(sorted) : sorted[i].score >= a.score}
        n == Cardinality(ahead)
    IN  SubSeq(sorted, 1, n) \o <<a>> \o SubSeq(sorted, n + 1, Len(sorted))

\* all_articles.sort(key=lambda x: x['score'], reverse=True): list.sort is
\* stable, also with reverse=True
RECURSIVE SortFrom(_, _, _)
SortFrom(list, i, sorted) ==
    IF i > Len(list) THEN sorted
    ELSE SortFrom(list, i + 1, InsertByScore(sorted, list[i]))
SortByScore(list) == SortFrom(list, 1, <<>>)

\* all_articles[:5]
TopArticles(list) == PySlicePrefix(list, MAX_ARTICLES_PER_RUN)

-----------------------------------------------------------------------------
(* cleanup_processed_articles *)

\* if len(self.processed_articles) > 1000
MAX_PROCESSED_ARTICLES == 1000
\* list(self.processed_articles)[-500:]
CLEANUP_RETAIN == 500

Range(seq) == {seq[i] : i \in 1..Len(seq)}
Reverse(seq) == [i \in 1..Len(seq) |-> seq[Len(seq) + 1 - i]]
\* the newest h ids first, then the others in order of registration
NewestFirst(seq, h) ==
    LET n == Len(seq)
        k == Min(h, n)
    IN  SubSeq(seq, n - k + 1, n) \o SubSeq(seq, 1, n - k)

\* list(self.processed_articles): a set iterates in the order of its hash
\* table, which the order of insertion does not decide.  The model draws
\* the order from: the order of registration, its reverse, and the orders
\* that place the newest 1..MaxDisplaced ids first.
SetIterationOrders(order) ==
    {NewestFirst(order, h) : h \in 0..MaxDisplaced} \cup {Reverse(order)}

\* recent_articles = list(...)[-500:]
LastRetained(listed) ==
    SubSeq(listed, Max(Len(listed) - CLEANUP_RETAIN, 0) + 1, Len(listed))

NeedsCleanupFrom1000(cache) == Cardinality(cache) >= MAX_PROCESSED_ARTICLES
NeedsCleanup(cache) == Cardinality(cache) > MAX_PROCESSED_ARTICLES

-----------------------------------------------------------------------------
(* The worker: run_curation and cleanup_processed_articles, as the scheduler
   of main() calls them one after the other *)

\* ids registered by earlier cycles of a long-running worker
OldIds(n) == [i \in 1..n |-> 100 + i]
\* the cache a behaviour starts from: empty, as __init__ leaves it, or five
\* or six ids short of the limit
StartSizes == {0, MAX_PROCESSED_ARTICLES - 6, MAX_PROCESSED_ARTICLES - 5}

Init ==
    /\ WorkerIdle /\ NoCall
    /\ title = "" /\ summary = "" /\ max_length = SAMPLE_COPY_MAX_LENGTH
    /\ \E n \in StartSizes :
          /\ reg_order = OldIds(n)
          /\ processed_articles = Range(OldIds(n))

\* run_curation returns: its locals and those of the functions it called
\* are gone
DropLocals ==
    /\ feed_idx' = 1 /\ all_articles' = <<>> /\ articles' = <<>>
    /\ row_idx' = 1 /\ added_count' = 0 /\ feed_log' = <<>> /\ attempts' = <<>>

\* run_curation starts: fetch_all_articles sets all_articles = []
StartCycle ==
    /\ pc = "idle" /\ cycles < MaxCycles
    /\ pc' = "fetching" /\ cycles' = cycles + 1
    /\ last' = "start"
    /\ UNCHANGED <<feed_idx, all_articles, articles, row_idx, added_count,
                   feed_log, attempts, sheet, emitted, shrunk, failures,
                   cacheVars, pureVars>>

\* one turn of the loop over self.feeds: fetch_articles_from_feed and extend
FetchFeed ==
    /\ pc = "fetching" /\ feed_idx <= NumFeeds
    /\ \E outcome \in FeedOutcomes :
          LET r == fetch_articles_from_feed(outcome, processed_articles, reg_order)
              ids == [i \in 1..Len(r.articles) |-> r.articles[i].id]
          IN  /\ all_articles' = all_articles \o r.articles
              /\ processed_articles' = r.processed
              /\ reg_order' = r.order
              /\ emitted' = emitted \o ids
              /\ feed_log' = Append(feed_log,
                                [feed |-> feed_idx, outcome |-> outcome, ids |-> ids])
              /\ feed_idx' = NextFeed(feed_idx, outcome)
    /\ last' = "fetch"
    /\ UNCHANGED <<pc, articles, row_idx, added_count, sheet, cycles, attempts,
                   shrunk, failures, pureVars>>

\* the loop is over: sort, truncate, return; run_curation hands a non-empty
\* list to add_articles_to_sheet, and returns at once on an empty one
RankArticles ==
    /\ pc = "fetching" /\ feed_idx > NumFeeds
    /\ LET ranked == TopArticles(SortByScore(all_articles))
       IN  IF ranked = <<>>
           THEN /\ pc' = "idle" /\ DropLocals
           ELSE /\ pc' = "adding" /\ articles' = ranked /\ feed_log' = <<>>
                /\ UNCHANGED <<feed_idx, all_articles, row_idx, added_count, attempts>>
    /\ last' = "rank"
    /\ UNCHANGED <<sheet, cycles, emitted, shrunk, failures, cacheVars, pureVars>>

\* row_data of lines 272-279 (the date and the three empty columns left
\* out; article is history: the article the row was made from)
RowData(article) ==
    [link |-> article.link, sample_copy |-> article.sample_copy, article |-> article]

\* for article in articles: after a failed append_row comes the next article
NextRowAbortOnFailure(idx, ok) == IF ok THEN idx + 1 ELSE Len(articles) + 1
NextRow(idx, ok) == idx + 1

\* added_count += 1 follows append_row inside the try
CountAddedAlways(count, ok) == count + 1
CountAdded(count, ok) == IF ok THEN count + 1 ELSE count

\* one turn of the loop of add_articles_to_sheet: append_row succeeds or raises
AppendRow ==
    /\ pc = "adding" /\ row_idx <= Len(articles)
    /\ \E ok \in BOOLEAN :
          /\ ok \/ failures < MaxAppendFailures
          /\ failures' = IF ok THEN failures ELSE failures + 1
          /\ sheet' = IF ok THEN Append(sheet, RowData(articles[row_idx])) ELSE sheet
          /\ added_count' = CountAdded(added_count, ok)
          /\ attempts' = Append(attempts, [article |-> articles[row_idx], ok |-> ok])
          /\ row_idx' = NextRow(row_idx, ok)
    /\ last' = "append"
    /\ UNCHANGED <<pc, feed_idx, all_articles, articles, cycles, feed_log,
                   emitted, shrunk, cacheVars, pureVars>>

\* the loop is over: added_count is logged and run_curation returns
FinishCycle ==
    /\ pc = "adding" /\ row_idx > Len(articles)
    /\ pc' = "idle" /\ DropLocals
    /\ last' = "finish"
    /\ UNCHANGED <<sheet, cycles, emitted, shrunk, failures, cacheVars, pureVars>>

\* cleanup_processed_articles, between two jobs of the scheduler
Cleanup ==
    /\ pc = "idle"
    /\ IF NeedsCleanup(processed_articles)
       THEN \E listed \in SetIterationOrders(reg_order) :
               LET recent_articles == LastRetained(listed)
                   kept == Range(recent_articles)
               IN  /\ processed_articles' = kept
                   /\ reg_order' = SelectSeq(reg_order, LAMBDA id : id \in kept)
                   /\ shrunk' = TRUE
       ELSE UNCHANGED <<cacheVars, shrunk>>
    /\ last' = "cleanup"
    /\ UNCHANGED <<pc, feed_idx, all_articles, articles, row_idx, added_count,
                   sheet, cycles, feed_log, attempts, emitted, failures, pureVars>>

Next == StartCycle \/ FetchFeed \/ RankArticles \/ AppendRow \/ FinishCycle \/ Cleanup

Spec == Init /\ [][Next]_vars

-----------------------------------------------------------------------------
(* Properties of the pure functions *)

\* indices of the table keywords that occur in text
Occurring(text) == {k \in 1..Len(keywords) : IsSubstring(Keyword(k), text)}

RECURSIVE SumWeights(_)
SumWeights(K) ==
    IF K = {} THEN 0
    ELSE LET k == CHOOSE x \in K : TRUE IN Weight(k) + SumWeights(K \ {k})

\* the keywords of K as a sequence in table order
InTableOrder(K) ==
    [i \in 1..Cardinality(K) |->
        Keyword(CHOOSE k \in K : Cardinality({j \in K : j <= k}) = i)]

\* C4: calculate_article_score returns score = the sum of the weights of the
\* keywords occurring in lowercase(title + " " + summary), plus twice the
\* number of matched keywords when more than one matched, plus 3 for each
\* table keyword occurring in lowercase(title); the matched keywords come in
\* table order; with no keyword matched the score is 0 and the list is empty.
ScoreFormula ==
    last = "calculate_article_score" =>
        LET r == result[1]
            inContent == Occurring(Lower(title \o " " \o summary))
            inTitle == Occurring(Lower(title))
            n == Cardinality(inContent)
        IN  /\ r.score = SumWeights(inContent)
                         + (IF n > 1 THEN 2 * n ELSE 0)
                         + 3 * Cardinality(inTitle)
            /\ r.matched_keywords = InTableOrder(inContent)
            /\ (inContent = {} => r.score = 0 /\ r.matched_keywords = <<>>)

\* C4 witness: a keyword spans the title and the summary ("bitcoin" + " " +
\* "options"), several keywords matched, one of them in the title
ScoreFormulaWitness ==
    /\ last = "calculate_article_score"
    /\ title = "Web3Bitcoin" /\ summary = "options trading"
    /\ result[1].matched_keywords = <<"bitcoin options", "options trading", "web3">>
    /\ result[1].score = 15 + 12 + 5 + 6 + 3

\* C5: for every title, summary and max_length >= 0 the string returned by
\* create_sample_copy is at most max_length characters long.
SampleCopyWithinMaxLength ==
    last = "create_sample_copy" => Len(result[1]) <= max_length

HasTag(s) ==
    \E i \in 1..Len(s) : CharAt(s, i) = "<" /\ FirstGtAfter(s, i) > i + 1
HasWhitespaceRun(s) ==
    \E i \in 1..(Len(s) - 1) : IsSpace(CharAt(s, i)) /\ IsSpace(CharAt(s, i + 1))
HasChar(s, c) == \E i \in 1..Len(s) : CharAt(s, i) = c

\* C10: the string clean_text returns holds no tag <...>, no run of two or
\* more whitespace characters, no double quote, no newline or carriage
\* return, and no leading or trailing whitespace; the empty input yields
\* the empty string.
CleanTextIsClean ==
    last = "clean_text" =>
        LET out == result[1]
        IN  /\ ~HasTag(out)
            /\ ~HasWhitespaceRun(out)
            /\ ~HasChar(out, "\"")
            /\ ~HasChar(out, "\n") /\ ~HasChar(out, "\r")
            /\ (out # "" => ~IsSpace(CharAt(out, 1)) /\ ~IsSpace(CharAt(out, Len(out))))
            /\ (summary = "" => out = "")

-----------------------------------------------------------------------------
(* Properties of the worker *)

Ids(list) == [i \in 1..Len(list) |-> list[i].id]
Distinct(seq) == \A i, j \in 1..Len(seq) : i # j => seq[i] # seq[j]
CurrentArticles ==
    Range(all_articles) \cup Range(articles)
    \cup {attempts[i].article : i \in 1..Len(attempts)}
    \cup {sheet[i].article : i \in 1..Len(sheet)}

\* C1: no article whose computed score is below the minimum score 8 is in
\* the list gathered or returned by fetch_all_articles, nor handed or
\* appended to the sink; the score an article carries is the one computed
\* from its entry's cleaned title and summary.
ThresholdHolds ==
    \A a \in CurrentArticles :
        /\ a.score >= MIN_RELEVANCE_SCORE
        /\ a.score = ScoredText[a.text].score

\* C1 witness: an article that scores exactly 8 reached the sink, from a feed
\* that also served an entry scoring 7 (id 17), which was not accepted
ThresholdWitness ==
    /\ \E i \in 1..Len(sheet) : sheet[i].article.score = MIN_RELEVANCE_SCORE
                                /\ sheet[i].article.id = 10
    /\ ScoredText[5].score = MIN_RELEVANCE_SCORE - 1
    /\ 17 \notin processed_articles

\* C2: an id that is registered is not emitted again, one ingestion emits an
\* id at most once, and what it emits it registers: of two ingestions of the
\* same entry in sequence at most one yields a scored article.
DedupIdempotent ==
    [][LET new == SubSeq(emitted', Len(emitted) + 1, Len(emitted'))
       IN  /\ \A i \in 1..Len(new) : new[i] \notin processed_articles
           /\ Distinct(new)
           /\ Range(new) \subseteq processed_articles']_vars

\* C2 witness: second cycle, no cleanup in between; both feeds served the
\* first snapshot (which lists id 2 twice) and emitted nothing, id 2 having
\* been emitted once in the first cycle
DedupWitness ==
    /\ cycles = 2 /\ ~shrunk /\ pc = "fetching" /\ Len(feed_log) = 2
    /\ \A i \in 1..2 : feed_log[i].outcome = [status |-> "ok", snapshot |-> 1]
                       /\ feed_log[i].ids = <<>>
    /\ Cardinality({i \in 1..Len(emitted) : emitted[i] = 2}) = 1

\* position of list[i] once the list is sorted by score, highest first, ties
\* in the order of the list
RankOf(list, i) ==
    1 + Cardinality({j \in 1..Len(list) : list[j].score > list[i].score})
      + Cardinality({j \in 1..(i - 1) : list[j].score = list[i].score})

\* C3: the ranked result is the first min(5, n) elements of the gathered
\* list sorted by score descending, ties in encounter order; so no excluded
\* article scores higher than an included one.
RankingCorrect ==
    pc = "adding" =>
        /\ Len(articles) = Min(MAX_ARTICLES_PER_RUN, Len(all_articles))
        /\ \A p \in 1..Len(articles) :
              \E i \in 1..Len(all_articles) :
                  RankOf(all_articles, i) = p /\ articles[p] = all_articles[i]
        /\ \A i \in 1..Len(all_articles) :
              RankOf(all_articles, i) > Len(articles) =>
                  \A p \in 1..Len(articles) : articles[p].score >= all_articles[i].score

\* C3 witness: 12 qualifying articles gathered, 5 returned, and the cut falls
\* between articles of equal score
RankingWitness ==
    /\ pc = "adding" /\ Len(all_articles) = 12 /\ Len(articles) = 5
    /\ \E i \in 1..12 : /\ all_articles[i].score = articles[5].score
                        /\ RankOf(all_articles, i) > 5

\* C6: a cleanup pass that finds more than 1000 ids leaves exactly 500 ids,
\* all of them from the cache; a pass that finds 1000 or fewer leaves the
\* cache unchanged; so after a pass the cache never holds more than 1000.
CleanupBounds ==
    [][last' = "cleanup" =>
          /\ IF Cardinality(processed_articles) > MAX_PROCESSED_ARTICLES
             THEN /\ Cardinality(processed_articles') = CLEANUP_RETAIN
                  /\ processed_articles' \subseteq processed_articles
             ELSE processed_articles' = processed_articles
          /\ Cardinality(processed_articles') <= MAX_PROCESSED_ARTICLES]_vars

\* C6 witness: a pass found 1001 ids (994 old ones and the 7 of one cycle)
\* and left 500: the 7 and the 493 old ones from the 502nd on
CleanupWitness ==
    LET firstKept == 100 + (MAX_PROCESSED_ARTICLES + 1 - CLEANUP_RETAIN) + 1
    IN  /\ last = "cleanup" /\ shrunk /\ cycles = 1 /\ Len(emitted) = 7
        /\ Range(emitted) \subseteq processed_articles
        /\ firstKept \in processed_articles
        /\ firstKept - 1 \notin processed_articles
        /\ Cardinality(processed_articles) = CLEANUP_RETAIN

\* C7: a cleanup pass that shrinks the cache retains the 500 ids registered
\* last; every id it discards is older than every id it retains.
CleanupKeepsMostRecent ==
    [][(last' = "cleanup" /\ Cardinality(processed_articles) > MAX_PROCESSED_ARTICLES)
          => processed_articles' = Range(LastRetained(reg_order))]_vars

\* C8: a feed that fails or has no entries contributes nothing and is
\* followed by the next feed: the feeds are fetched in configured order with
\* none left out, the gathered list is what the feeds yielded, and the
\* ranked list is handed to the sink only after every feed was fetched.
Flatten(log) ==
    LET RECURSIVE Cat(_)
        Cat(i) == IF i > Len(log) THEN <<>> ELSE log[i].ids \o Cat(i + 1)
    IN  Cat(1)
FeedFailureIsolated ==
    /\ pc = "fetching" =>
          /\ feed_idx = Len(feed_log) + 1 /\ feed_idx <= NumFeeds + 1
          /\ \A i \in 1..Len(feed_log) :
                /\ feed_log[i].feed = i
                /\ feed_log[i].outcome.status \in {"error", "empty"}
                      => feed_log[i].ids = <<>>
          /\ Ids(all_articles) = Flatten(feed_log)
    /\ pc = "adding" =>
          /\ feed_idx = NumFeeds + 1
          /\ Range(articles) \subseteq Range(all_articles)
          /\ \A i \in 1..Len(attempts) : attempts[i].article = articles[i]

\* C8 witness: the first feed failed, the last feed was fetched all the same
\* and its articles were gathered
FeedFailureWitness ==
    /\ pc = "fetching" /\ feed_idx = NumFeeds + 1
    /\ feed_log[1].outcome.status = "error"
    /\ feed_log[NumFeeds].ids # <<>>
    /\ Ids(all_articles) = feed_log[NumFeeds].ids

\* C9: a failed row append is skipped: every article of the ranked list is
\* attempted, in ranked order, a failure or not before it; the count
\* reported is the number of appends that succeeded, and those rows are the
\* ones the sink received.
Succeeded == SelectSeq(attempts, LAMBDA t : t.ok)
AppendFailureIsolated ==
    pc = "adding" =>
        /\ row_idx = Len(attempts) + 1 /\ row_idx <= Len(articles) + 1
        /\ \A i \in 1..Len(attempts) : attempts[i].article = articles[i]
        /\ added_count = Len(Succeeded)
        /\ added_count <= Len(sheet)
        /\ SubSeq(sheet, Len(sheet) - added_count + 1, Len(sheet))
              = [i \in 1..Len(Succeeded) |-> RowData(Succeeded[i].article)]

\* C9 witness: the loop is over; the second of five appends failed, the three
\* after it succeeded, and the count is 4
AppendFailureWitness ==
    /\ pc = "adding" /\ row_idx = Len(articles) + 1 /\ Len(articles) = 5
    /\ ~attempts[2].ok
    /\ \A i \in {1, 3, 4, 5} : attempts[i].ok
    /\ added_count = 4

\* the entries of a feed that ingestion looks at
Served(outcome) ==
    IF outcome.status = "ok"
    THEN LET entries == FeedSnapshots[outcome.snapshot]
         IN  SubSeq(entries, 1, Min(Len(entries), MAX_ENTRIES_PER_FEED))
    ELSE <<>>
\* the ids ingestion emitted in the step
NewlyEmitted == SubSeq(emitted', Len(emitted) + 1, Len(emitted'))
\* the feed outcome the step ingested
StepOutcome == feed_log'[Len(feed_log')].outcome
IsFetchStep == Len(feed_log') = Len(feed_log) + 1

\* C11: ingestion adds an id to the dedup cache if and only if the entry is
\* accepted (score >= 8) at that moment: the ids one ingestion adds are those
\* it emits, each from a well-formed entry that scores at least 8, and an
\* entry below the threshold leaves the cache as it was, so that its id can
\* be scored again and accepted when it reappears.
RegistersOnlyAccepted ==
    [][IsFetchStep =>
          LET served == Served(StepOutcome)
              added == processed_articles' \ processed_articles
              Accepts(i) == /\ ~served[i].malformed
                            /\ ScoredText[served[i].text].score >= MIN_RELEVANCE_SCORE
          IN  /\ processed_articles \subseteq processed_articles'
              /\ added = Range(NewlyEmitted)
              /\ \A id \in added :
                    \E i \in 1..Len(served) : ArticleId(served[i]) = id /\ Accepts(i)
              /\ \A i \in 1..Len(served) :
                    (/\ ~Accepts(i)
                     /\ ArticleId(served[i]) \notin processed_articles
                     /\ \A j \in 1..Len(served) :
                           ArticleId(served[j]) = ArticleId(served[i]) => ~Accepts(j))
                    => ArticleId(served[i]) \notin processed_articles']_vars

\* C11 witness: the first cycle, from an empty cache, was served the first
\* snapshot only, where id 6 scores 7 and was not registered; in the second
\* cycle id 6 reappears with a qualifying text and is accepted
RegistersOnlyAcceptedWitness ==
    /\ cycles = 2 /\ pc = "fetching" /\ Len(feed_log) = 1
    /\ Len(emitted) > 7 /\ SubSeq(emitted, 1, 7) = <<1, 2, 3, 4, 5, 7, 16>>
    /\ feed_log[1].outcome = [status |-> "ok", snapshot |-> 2]
    /\ \E i \in 1..Len(feed_log[1].ids) : feed_log[1].ids[i] = 6
    /\ 6 \in processed_articles /\ 15 \notin processed_articles
    /\ ScoredText[5].score < MIN_RELEVANCE_SCORE

\* the entries ingestion has to emit, in the order served: well-formed,
\* qualifying, with an id that is neither in the cache nor carried by an
\* earlier such entry
Emittable(served, cache) ==
    LET Good(i) == /\ ~served[i].malformed
                   /\ ScoredText[served[i].text].score >= MIN_RELEVANCE_SCORE
                   /\ ArticleId(served[i]) \notin cache
        First(i) == /\ Good(i)
                    /\ \A j \in 1..(i - 1) :
                          ArticleId(served[j]) = ArticleId(served[i]) => ~Good(j)
        want == SelectSeq([i \in 1..Len(served) |-> i], First)
    IN  [k \in 1..Len(want) |-> served[want[k]]]

\* C12: a malformed entry is the only one skipped: it is not emitted and
\* its id is not registered, while every other entry among the first 10 of
\* the feed, before and after it, is processed and emitted if it qualifies.
MalformedEntrySkipped ==
    [][IsFetchStep =>
          LET served == Served(StepOutcome)
              want == Emittable(served, processed_articles)
              wantIds == [k \in 1..Len(want) |-> ArticleId(want[k])]
              got == SubSeq(all_articles', Len(all_articles) + 1, Len(all_articles'))
          IN  /\ NewlyEmitted = wantIds
              /\ Ids(got) = wantIds
              /\ [k \in 1..Len(got) |-> got[k].text] = [k \in 1..Len(want) |-> want[k].text]
              /\ \A i \in 1..Len(served) :
                    (/\ served[i].malformed
                     /\ ArticleId(served[i]) \notin processed_articles
                     /\ ArticleId(served[i]) \notin Range(NewlyEmitted))
                    => ArticleId(served[i]) \notin processed_articles']_vars

\* C12 witness: the second snapshot, whose second entry (id 13, with a text
\* that scores 47) is malformed, was ingested: the entry before it and the
\* four qualifying entries after it were emitted, id 13 was not registered
MalformedEntrySkippedWitness ==
    /\ pc = "fetching" /\ feed_log # <<>>
    /\ feed_log[Len(feed_log)].outcome = [status |-> "ok", snapshot |-> 2]
    /\ FeedSnapshots[2][2].malformed /\ ArticleId(FeedSnapshots[2][2]) = 13
    /\ ScoredText[FeedSnapshots[2][2].text].score >= MIN_RELEVANCE_SCORE
    /\ feed_log[Len(feed_log)].ids = <<8, 10, 11, 12, 6>>
    /\ 13 \notin processed_articles

\* the ids of the rows the sink holds, in append order
SheetIds == [i \in 1..Len(sheet) |-> sheet[i].article.id]

\* C13: as long as no cleanup pass has discarded ids from the dedup cache,
\* no article id is appended to the sink more than once, however often the
\* feeds serve the entry again.
NoRepublication ==
    ~shrunk => Distinct(SheetIds)

\* C13 witness: the first cycle appended articles of the first snapshot to
\* the sink; in the second cycle, no cleanup in between, the first feed
\* served the same snapshot again and yielded nothing, the second feed
\* yielded new articles, and the sink holds id 2 once
NoRepublicationWitness ==
    /\ cycles = 2 /\ ~shrunk /\ pc = "fetching" /\ Len(feed_log) = 2
    /\ feed_log[1].outcome = [status |-> "ok", snapshot |-> 1]
    /\ feed_log[1].ids = <<>>
    /\ feed_log[2].ids # <<>>
    /\ Len(sheet) = MAX_ARTICLES_PER_RUN
    /\ Cardinality({i \in 1..Len(sheet) : SheetIds[i] = 2}) = 1

\* ids accepted in the running cycle that may still reach the sink: gathered
\* and not yet ranked, or ranked and not yet attempted
Pending ==
    IF pc = "fetching" THEN Range(Ids(all_articles))
    ELSE IF pc = "adding" THEN {articles[i].id : i \in row_idx..Len(articles)}
    ELSE {}
\* ids that were accepted and did not reach the sink: cut by the truncation
\* to the top 5, or attempted with an append that failed
Lost == (Range(emitted) \ Range(SheetIds)) \ Pending

\* C14: an id is registered at acceptance, before ranking and before the
\* sink append, so an article that was accepted and then cut by the top-5
\* truncation, or whose row append failed, has its id in the cache (until a
\* cleanup pass discards ids) and, for as long as the id stays there, is
\* neither emitted by ingestion nor appended to the sink again.
LostStaysLost ==
    /\ [](~shrunk => Lost \subseteq processed_articles)
    /\ [][\A id \in Lost \cap processed_articles :
            /\ id \notin Range(NewlyEmitted)
            /\ \A i \in (Len(sheet) + 1)..Len(sheet') : sheet'[i].article.id # id
            /\ id \in processed_articles' => id \in Lost']_vars

\* C14 witness: in the first cycle id 16 was accepted and cut by the
\* truncation and the append of id 2 failed; in the second cycle, both ids
\* still in the cache, the first feed served both entries again and emitted
\* nothing
LostStaysLostWitness ==
    /\ cycles = 2 /\ ~shrunk /\ pc = "fetching" /\ Len(feed_log) = 1
    /\ feed_log[1].outcome = [status |-> "ok", snapshot |-> 1]
    /\ feed_log[1].ids = <<>>
    /\ failures = 1 /\ Len(sheet) = MAX_ARTICLES_PER_RUN - 1
    /\ {2, 16} \subseteq Lost \cap processed_articles

=============================================================================
